---- MODULE Spec2Model ----
(***************************************************************************)
(* Task entity of ControlFlow (src/controlflow/tasks/task.py): the         *)
(* parent/subtask/dependency graph, the status machine, result validation  *)
(* and the two completion tools generated for each task.                   *)
(***************************************************************************)
EXTENDS Integers, Sequences, FiniteSets, TLC

\* ---------------------------------------------------------------- bounds
MaxTasks == 3
MaxOptions == 2
MaxDepth == 1
MaxDeps == 2
MaxReadyTasks == 2
MaxNest == 3
MaxIdTasks == 2
MaxOverrides == 2
MaxBlocks == 2

\* ---------------------------------------------------------------- values
\* Python values are pairs <<kind, n>>: None, the int n, the str that is
\* the decimal numeral of n, and a str that is no numeral (text number n).
NoneV == <<"none", 0>>
IntV(n) == <<"int", n>>
NumStrV(n) == <<"numstr", n>>
TextV(n) == <<"text", n>>

\* Raw values handed to mark_successful / the success tool.  The ints run
\* from -1 to MaxOptions so that an index below and above 0..N-1 exists.
RawInts == (-1) .. MaxOptions
RawValues == {NoneV, NumStrV(1), TextV(0)} \cup {IntV(i) : i \in RawInts}

\* Reasons handed to mark_failed / the failure tool.
Reasons == {TextV(7)}

\* Values a caller lists as the options of an enumerated result type.
OptionValues == {IntV(0), TextV(1)}
OptionLists == UNION {[1..k -> OptionValues] : k \in 0..MaxOptions}

\* ---------------------------------------------------------------- types
TaskIds == 1..MaxTasks
NoTask == 0
NOTSET == -1

TaskStatus == {"PENDING", "RUNNING", "SUCCESSFUL", "FAILED", "SKIPPED"}
INCOMPLETE_STATUSES == {"PENDING", "RUNNING"}
COMPLETE_STATUSES == {"SUCCESSFUL", "FAILED", "SKIPPED"}

\* result_type as given to the constructor.
RT(kind, opts) == [kind |-> kind, opts |-> opts]
ResultTypeArgs ==
    {RT("NOTSET", <<>>), RT("none", <<>>), RT("int", <<>>), RT("str", <<>>)}
        \cup {RT("list", o) : o \in OptionLists}

\* result_validator callables a caller may attach:
\*   "nonneg": def v(x): if x < 0: raise ValueError(...); return x
\*   "incr":   lambda x: x + 1
\*   "const":  lambda x: "ok"
Validators == {"none", "nonneg", "incr", "const"}

\* Task.agents: None is <<>>, the list of the agents in S is <<S>>.
AgentNames == {"a1", "a2"}
NoAgents == <<>>
AgentList(S) == <<S>>

\* Task.id: None is <<>>, an id passed to the constructor is <<"given", k>>.
NoId == <<>>
GivenId(k) == <<"given", k>>

\* The text fields of a task: objective, instructions, prompt, the context
\* mapping and the name, each a small number standing for its content
\* (0 is None, or the empty mapping), and the tasks that are values of the
\* context mapping.
DefaultFields ==
    [objective |-> 1, instructions |-> 0, prompt |-> 0, context |-> 0,
     name |-> 0, context_tasks |-> {}]

\* The keyword arguments of the constructor besides result_type,
\* result_validator, parent and depends_on.
Kw(f, a, i) == [fields |-> f, agents |-> a, id |-> i]
DefaultKw == Kw(DefaultFields, NoAgents, NoId)

\* The attributes of controlflow.settings: two of its fields, a private
\* attribute, a method, and a name it has no attribute of.  A value is 0
\* or 1 (False or True; for the private attribute, None or a context).
SettingFields == {"log_prints", "tools_raise_on_error"}
PrivateAttrs == {"_prefect_context"}
MethodAttrs == {"model_dump"}
MissingAttrs == {"no_such_setting"}
SettingValues == {0, 1}

\* The concurrent invocations of the success tool of one task, and the
\* locals of one that has not started.
Threads == {1, 2}
NoFrame == [arg |-> NoneV, raw |-> NoneV, val |-> NoneV, pre |-> "PENDING",
            out |-> "none"]

VARIABLES
    created,          \* the Task objects constructed so far
    parent,           \* Task.parent (NoTask for None)
    subtasks,         \* Task._subtasks
    depends_on,       \* Task.depends_on
    downstreams,      \* Task._downstreams
    status,           \* Task.status
    result,           \* Task.result
    result_type,      \* Task.result_type (after the field validator)
    result_validator, \* Task.result_validator
    ctx_tasks,        \* ctx "tasks": the stack of entered tasks
    last,             \* the last call made and how it ended
    agents,           \* Task.agents
    id,               \* Task.id
    fields,           \* Task.objective, instructions, prompt, context, name
    flow,             \* the ambient flow: "none", "nodefault" or "default"
    tui,              \* ctx "tui": whether an observer is registered
    withs,            \* the `with task:` blocks the program is inside of
    cm_stack,         \* Task._cm_stack: what each open entry restores
    used,             \* whether the success tool of the task has completed
    rejected,         \* whether the success tool of the task has failed
    settings,         \* controlflow.settings: the value of each attribute
    blocks,           \* the open temporary_settings blocks, innermost last
    pc,               \* where each concurrent success-tool invocation is
    frame             \* the locals of each concurrent invocation

decl == <<agents, id, fields>>
extra == <<settings, blocks, pc, frame>>
ambient == <<flow, tui>>
nest == <<ctx_tasks, withs, cm_stack>>

vars == <<created, parent, subtasks, depends_on, downstreams, status, result,
          result_type, result_validator, last, decl, ambient, nest, used,
          rejected, extra>>

graph == <<created, parent, subtasks, depends_on, downstreams, result_type,
           result_validator, decl, ambient, nest>>

\* The validator was not called.
NoCall == <<"nocall", 0>>

\* A call record: the operation, the task it was called on, its argument,
\* how it ended ("ok" or the error raised), the status the task had when
\* the call was made, the value the result_validator received (vin), the
\* value returned or carried by the error (ret) and the snapshots
\* <<status, result>> of the task the observer was shown (seen).
Call(op, t, a, e) ==
    [op |-> op, task |-> t, arg |-> a, err |-> e,
     pre |-> IF t \in created THEN status[t] ELSE "PENDING",
     vin |-> NoCall, ret |-> NoneV, seen |-> <<>>]
Raised(c) == c.err # "ok"

\* ------------------------------------------------------ result validation
Ok(v) == [ok |-> TRUE, val |-> v]
Err == [ok |-> FALSE, val |-> NoneV]

\* Task._validate_result_type
ValidateResultType(v) ==
    IF v.kind = "NOTSET" THEN RT("str", <<>>)
    ELSE IF v.kind = "list" THEN RT("labels", v.opts)
    ELSE v

\* Labels.__iter__ / membership by equality
InLabels(v, rt) == \E i \in 1..Len(rt.opts) : rt.opts[i] = v

\* An instance of a class pydantic can generate no schema for, made by
\* calling the class with the raw result numbered n.
ObjV(n) == <<"obj", n>>

\* TypeAdapter(result_type).validate_python(raw) for int and str; for a
\* class without a schema, PydanticSchemaGenerationError is caught and the
\* class is called with the raw result
ValidatePython(rt, raw) ==
    IF rt.kind = "custom" THEN Ok(ObjV(raw[2]))
    ELSE IF rt.kind = "int" THEN
        IF raw[1] = "int" THEN Ok(raw)
        ELSE IF raw[1] = "numstr" THEN Ok(IntV(raw[2]))
        ELSE Err
    ELSE
        IF raw[1] \in {"numstr", "text"} THEN Ok(raw) ELSE Err

\* self.result_validator(result)
ApplyValidator(rv, v) ==
    IF rv = "nonneg" THEN
        IF v[1] = "int" /\ v[2] >= 0 THEN Ok(v) ELSE Err
    ELSE IF rv = "incr" THEN
        IF v[1] = "int" THEN Ok(IntV(v[2] + 1)) ELSE Err
    ELSE Ok(TextV(9))

\* The outcome of validate_result: whether it returned, the value it
\* returned and the value the result_validator was called with.
Validated(a, vin) == [ok |-> a.ok, val |-> a.val, vin |-> vin]

\* the first branches of Task.validate_result: the result against the
\* declared shape
shape_result(t, raw_result) ==
    LET rt == result_type[t] IN
    IF rt.kind = "none" /\ raw_result # NoneV THEN Err
    ELSE IF rt.kind = "labels" THEN
        IF ~InLabels(raw_result, rt) THEN Err ELSE Ok(raw_result)
    ELSE IF rt.kind # "none" THEN ValidatePython(rt, raw_result)
    ELSE Ok(raw_result)

\* validate_result without the check that a task of result type None
\* was given no result
validate_result_any_for_none(t, raw_result) ==
    LET rt == result_type[t]
        shaped ==
            IF rt.kind = "labels" THEN
                IF ~InLabels(raw_result, rt) THEN Err ELSE Ok(raw_result)
            ELSE IF rt.kind # "none" THEN ValidatePython(rt, raw_result)
            ELSE Ok(raw_result)
    IN  IF ~shaped.ok THEN Validated(Err, NoCall)
        ELSE IF result_validator[t] # "none"
             THEN Validated(ApplyValidator(result_validator[t], shaped.val),
                            shaped.val)
             ELSE Validated(shaped, NoCall)

\* validate_result handing the raw result to the result_validator and
\* checking the shape of what it returns
validate_result_validator_first(t, raw_result) ==
    IF result_validator[t] # "none"
    THEN LET a == ApplyValidator(result_validator[t], raw_result) IN
         IF ~a.ok THEN Validated(Err, raw_result)
         ELSE Validated(shape_result(t, a.val), raw_result)
    ELSE Validated(shape_result(t, raw_result), NoCall)

\* Task.validate_result
validate_result(t, raw_result) ==
    LET shaped == shape_result(t, raw_result) IN
    IF ~shaped.ok THEN Validated(Err, NoCall)
    ELSE IF result_validator[t] # "none"
         THEN Validated(ApplyValidator(result_validator[t], shaped.val),
                        shaped.val)
         ELSE Validated(shaped, NoCall)

\* ------------------------------------------------------------- predicates
\* Task.is_incomplete
is_incomplete(t) == status[t] \in INCOMPLETE_STATUSES
\* completeness that counts only success
is_complete_only_successful(t) == status[t] = "SUCCESSFUL"

\* Task.is_complete
is_complete(t) == status[t] \in COMPLETE_STATUSES
is_successful(t) == status[t] = "SUCCESSFUL"
is_failed(t) == status[t] = "FAILED"

\* readiness that asks for one complete dependency instead of all
is_ready_any(t) ==
    is_incomplete(t)
        /\ (depends_on[t] = {} \/ \E d \in depends_on[t] : is_complete(d))

\* readiness that does not count a task's dependency on itself
is_ready_skip_self(t) ==
    is_incomplete(t) /\ \A d \in depends_on[t] \ {t} : is_complete(d)

\* Task.is_ready
is_ready(t) == is_incomplete(t) /\ \A d \in depends_on[t] : is_complete(d)

\* ------------------------------------------------------- agent resolution
\* What get_agents gives: a list of agents, or a RecursionError.
Agents(S) == <<"agents", S>>
RecursionError == <<"RecursionError", {}>>

\* the last branch of Task.get_agents: the default agent of the flow, or
\* the process-wide default agent
default_agents ==
    IF flow = "default" THEN Agents({"flow_agent"})
    ELSE Agents({"default_agent"})

\* Task.get_agents, `fuel` frames of the call stack being left
RECURSIVE get_agents_from(_, _)
get_agents_from(t, fuel) ==
    IF agents[t] # NoAgents THEN Agents(agents[t][1])
    ELSE IF parent[t] # NoTask THEN
        IF fuel = 0 THEN RecursionError
        ELSE get_agents_from(parent[t], fuel - 1)
    ELSE default_agents

\* Task.get_agents: a chain of more than MaxTasks parents passes through
\* one task twice and never ends, which exhausts the call stack.
get_agents(t) == get_agents_from(t, MaxTasks)

\* ------------------------------------------------------------------ ids
\* str(self.result_type): the name of the type, or the options of Labels
str_result_type(rt) == <<rt.kind, rt.opts>>

\* str(self.context): the text of the mapping, in which a task that is a
\* value shows as its repr, which has its id
str_context(f) == <<f.context, {id[c] : c \in f.context_tasks}>>

\* hash_objects over the tuple Task._generate_id builds
hash_objects(tuple) == <<"hash">> \o tuple

\* _generate_id hashing the name of the task as well
generate_id_with_name(f, rt) ==
    hash_objects(<<"Task", f.objective, f.instructions, str_result_type(rt),
                   f.prompt, str_context(f), f.name>>)

\* Task._generate_id
generate_id(f, rt) ==
    hash_objects(<<"Task", f.objective, f.instructions, str_result_type(rt),
                   f.prompt, str_context(f)>>)

\* the names of the two completion tools
success_tool_name(t) == <<"mark_task_", id[t], "_successful">>
fail_tool_name(t) == <<"mark_task_", id[t], "_failed">>

\* ------------------------------------------------------------------ Init
Init ==
    /\ created = {}
    /\ parent = [t \in TaskIds |-> NoTask]
    /\ subtasks = [t \in TaskIds |-> {}]
    /\ depends_on = [t \in TaskIds |-> {}]
    /\ downstreams = [t \in TaskIds |-> {}]
    /\ status = [t \in TaskIds |-> "PENDING"]
    /\ result = [t \in TaskIds |-> NoneV]
    /\ result_type = [t \in TaskIds |-> RT("str", <<>>)]
    /\ result_validator = [t \in TaskIds |-> "none"]
    /\ ctx_tasks = <<>>
    /\ last = [op |-> "init", task |-> NoTask, arg |-> NoneV, err |-> "ok",
               pre |-> "PENDING", vin |-> NoCall, ret |-> NoneV,
               seen |-> <<>>]
    /\ agents = [t \in TaskIds |-> NoAgents]
    /\ id = [t \in TaskIds |-> NoId]
    /\ fields = [t \in TaskIds |-> DefaultFields]
    /\ flow = "none"
    /\ tui = FALSE
    /\ withs = <<>>
    /\ cm_stack = [t \in TaskIds |-> <<>>]
    /\ used = [t \in TaskIds |-> FALSE]
    /\ rejected = [t \in TaskIds |-> FALSE]
    /\ settings = [a \in SettingFields \cup PrivateAttrs |-> 0]
    /\ blocks = <<>>
    /\ pc = [th \in Threads |-> "idle"]
    /\ frame = [th \in Threads |-> NoFrame]

\* ------------------------------------------------------------ the graph
\* Task._default_parent
default_parent(v) ==
    IF v = NOTSET
    THEN IF Len(ctx_tasks) > 0 THEN ctx_tasks[Len(ctx_tasks)] ELSE NoTask
    ELSE v

\* field validation that lets every agents value through
validate_agents_any(v) == TRUE

\* Task._validate_agents: an empty list of agents is refused
validate_agents(v) == v # AgentList({})

\* The call record of a construction: the parent argument, and the agents
\* argument as the value of ret.
Construction(t, par, kw, e) ==
    [Call("Task", t, IntV(par), e) EXCEPT !.ret = <<"kw", kw.agents>>]

\* Task.__init__: the fields are validated, which fails before anything
\* is wired when the agents are an empty list; every task passed as
\* depends_on gets the new task as a downstream, the parent adopts the new
\* task, and a task that was given no id gets the generated one.
Create(t, rt, rv, par, deps, kw) ==
    LET p == default_parent(par) IN
    /\ t \notin created
    /\ t = Cardinality(created) + 1
    /\ par \in {NOTSET, NoTask} \cup created
    /\ deps \subseteq created
    /\ kw.fields.context_tasks \subseteq created
    /\ IF ~validate_agents(kw.agents)
       THEN /\ last' = Construction(NoTask, par, kw, "validation_error")
            /\ UNCHANGED <<graph, status, result>>
       ELSE /\ created' = created \cup {t}
            /\ result_type' =
                 [result_type EXCEPT ![t] = ValidateResultType(rt)]
            /\ result_validator' = [result_validator EXCEPT ![t] = rv]
            /\ fields' = [fields EXCEPT ![t] = kw.fields]
            /\ agents' = [agents EXCEPT ![t] = kw.agents]
            /\ parent' = [parent EXCEPT ![t] = p]
            /\ downstreams' = [d \in TaskIds |->
                                  IF d \in deps THEN downstreams[d] \cup {t}
                                                ELSE downstreams[d]]
            /\ subtasks' = IF p # NoTask
                           THEN [subtasks EXCEPT ![p] = @ \cup {t}]
                           ELSE subtasks
            /\ depends_on' = [d \in TaskIds |->
                                  IF d = t THEN deps
                                  ELSE IF d = p THEN depends_on[d] \cup {t}
                                  ELSE depends_on[d]]
            /\ id' = [id EXCEPT ![t] =
                         IF kw.id = NoId
                         THEN generate_id(kw.fields, ValidateResultType(rt))
                         ELSE kw.id]
            /\ last' = Construction(t, par, kw, "ok")
            /\ UNCHANGED <<status, result, ambient, nest>>
    /\ UNCHANGED <<used, rejected, extra>>

\* Task.friendly_name: the text that names the task in a message
friendly_name(t) == <<"friendly_name", t>>

\* add_subtask that forgets the implicit dependency on the subtask
add_subtask_no_dependency(self, task) ==
    /\ self \in created /\ task \in created
    /\ IF parent[task] # NoTask /\ parent[task] # self
       THEN /\ last' = [Call("add_subtask", self, IntV(task), "has_parent")
                          EXCEPT !.ret = friendly_name(self)]
            /\ UNCHANGED <<parent, subtasks, depends_on>>
       ELSE /\ parent' = IF parent[task] = NoTask
                         THEN [parent EXCEPT ![task] = self] ELSE parent
            /\ subtasks' = [subtasks EXCEPT ![self] = @ \cup {task}]
            /\ UNCHANGED depends_on
            /\ last' = Call("add_subtask", self, IntV(task), "ok")
    /\ UNCHANGED <<created, downstreams, status, result, result_type,
                   result_validator, decl, ambient, nest, used, rejected,
                   extra>>

\* add_subtask that registers the task before it checks the parent
add_subtask_check_last(self, task) ==
    /\ self \in created /\ task \in created
    /\ subtasks' = [subtasks EXCEPT ![self] = @ \cup {task}]
    /\ depends_on' = [depends_on EXCEPT ![self] = @ \cup {task}]
    /\ IF parent[task] # NoTask /\ parent[task] # self
       THEN /\ last' = [Call("add_subtask", self, IntV(task), "has_parent")
                          EXCEPT !.ret = friendly_name(self)]
            /\ UNCHANGED parent
       ELSE /\ parent' = IF parent[task] = NoTask
                         THEN [parent EXCEPT ![task] = self] ELSE parent
            /\ last' = Call("add_subtask", self, IntV(task), "ok")
    /\ UNCHANGED <<created, downstreams, status, result, result_type,
                   result_validator, decl, ambient, nest, used, rejected,
                   extra>>

\* Task.add_subtask
add_subtask(self, task) ==
    /\ self \in created /\ task \in created
    /\ IF parent[task] # NoTask /\ parent[task] # self
       THEN /\ last' = [Call("add_subtask", self, IntV(task), "has_parent")
                          EXCEPT !.ret = friendly_name(self)]
            /\ UNCHANGED <<parent, subtasks, depends_on>>
       ELSE /\ parent' = IF parent[task] = NoTask
                         THEN [parent EXCEPT ![task] = self] ELSE parent
            /\ subtasks' = [subtasks EXCEPT ![self] = @ \cup {task}]
            /\ depends_on' = [depends_on EXCEPT ![self] = @ \cup {task}]
            /\ last' = Call("add_subtask", self, IntV(task), "ok")
    /\ UNCHANGED <<created, downstreams, status, result, result_type,
                   result_validator, decl, ambient, nest, used, rejected,
                   extra>>

\* Task.add_dependency
add_dependency(self, task) ==
    /\ self \in created /\ task \in created
    /\ depends_on' = [depends_on EXCEPT ![self] = @ \cup {task}]
    /\ downstreams' = [downstreams EXCEPT ![task] = @ \cup {self}]
    /\ last' = Call("add_dependency", self, IntV(task), "ok")
    /\ UNCHANGED <<created, parent, subtasks, status, result, result_type,
                   result_validator, decl, ambient, nest, used, rejected,
                   extra>>

\* ------------------------------------------------- the ambient context
\* leaving `with ctx(tasks=...)`: the ambient "tasks" value is again the
\* one the block replaced
ctx_reset(saved) == saved

\* Task.__enter__ / create_context: `with task:` opens an ExitStack on the
\* task's _cm_stack that holds the context `ctx(tasks=stack + [self])`;
\* the ExitStack keeps what the block replaced.
Enter(t) ==
    /\ t \in created
    /\ cm_stack' = [cm_stack EXCEPT ![t] = Append(@, ctx_tasks)]
    /\ ctx_tasks' = Append(ctx_tasks, t)
    /\ withs' = Append(withs, t)
    /\ last' = Call("enter", t, NoneV, "ok")
    /\ UNCHANGED <<created, parent, subtasks, depends_on, downstreams,
                   status, result, result_type, result_validator, decl,
                   ambient, used, rejected, extra>>

\* __exit__ closing the context of the task's oldest open entry
Exit_oldest_entry(t) ==
    /\ Len(withs) > 0 /\ t = withs[Len(withs)]
    /\ ctx_tasks' = ctx_reset(Head(cm_stack[t]))
    /\ cm_stack' = [cm_stack EXCEPT ![t] = Tail(@)]
    /\ withs' = SubSeq(withs, 1, Len(withs) - 1)
    /\ last' = Call("exit", t, NoneV, "ok")
    /\ UNCHANGED <<created, parent, subtasks, depends_on, downstreams,
                   status, result, result_type, result_validator, decl,
                   ambient, used, rejected, extra>>

\* Task.__exit__: the innermost open `with task:` block ends; the task
\* pops its _cm_stack and closes what it popped.
Exit(t) ==
    /\ Len(withs) > 0 /\ t = withs[Len(withs)]
    /\ ctx_tasks' = ctx_reset(cm_stack[t][Len(cm_stack[t])])
    /\ cm_stack' = [cm_stack EXCEPT ![t] = SubSeq(@, 1, Len(@) - 1)]
    /\ withs' = SubSeq(withs, 1, Len(withs) - 1)
    /\ last' = Call("exit", t, NoneV, "ok")
    /\ UNCHANGED <<created, parent, subtasks, depends_on, downstreams,
                   status, result, result_type, result_validator, decl,
                   ambient, used, rejected, extra>>

\* `with Flow(...)` around the program, with or without a default agent,
\* and its end
EnterFlow(kind) ==
    /\ flow = "none"
    /\ flow' = kind
    /\ last' = Call("enter_flow", NoTask, NoneV, "ok")
    /\ UNCHANGED <<created, parent, subtasks, depends_on, downstreams,
                   status, result, result_type, result_validator, decl,
                   tui, nest, used, rejected, extra>>

ExitFlow ==
    /\ flow # "none"
    /\ flow' = "none"
    /\ last' = Call("exit_flow", NoTask, NoneV, "ok")
    /\ UNCHANGED <<created, parent, subtasks, depends_on, downstreams,
                   status, result, result_type, result_validator, decl,
                   tui, nest, used, rejected, extra>>

\* `with ctx(tui=...)`: an observer is registered, or no longer is
SetTui(on) ==
    /\ tui # on
    /\ tui' = on
    /\ last' = Call("ctx_tui", NoTask, NoneV, "ok")
    /\ UNCHANGED <<created, parent, subtasks, depends_on, downstreams,
                   status, result, result_type, result_validator, decl,
                   flow, nest, used, rejected, extra>>

\* Task.get_agents called on a task
GetAgents(t) ==
    /\ t \in created
    /\ last' = [Call("get_agents", t, NoneV,
                     IF get_agents(t) = RecursionError
                     THEN "RecursionError" ELSE "ok")
                   EXCEPT !.ret = get_agents(t)]
    /\ UNCHANGED <<graph, status, result, used, rejected, extra>>

\* ------------------------------------------------------ the status machine
\* what the observer reads in tui.update_task(self): the task as it is
\* once the statements before the notification have run
Shown(t) == <<status'[t], result'[t]>>

\* set_status that leaves a complete task as it is
set_status_guarded(t, s, c) ==
    IF status[t] \in COMPLETE_STATUSES
    THEN /\ UNCHANGED status
         /\ last' = c
    ELSE /\ status' = [status EXCEPT ![t] = s]
         /\ last' = [c EXCEPT !.seen = IF tui THEN <<Shown(t)>> ELSE <<>>]

\* set_status that notifies the observer before it writes the status
set_status_notify_first(t, s, c) ==
    /\ last' = [c EXCEPT !.seen =
                   IF tui THEN <<<<status[t], result'[t]>>>> ELSE <<>>]
    /\ status' = [status EXCEPT ![t] = s]

\* Task.set_status, as the last statement of the call recorded in c: the
\* status is written, then the observer, if there is one, is shown the task
set_status(t, s, c) ==
    /\ status' = [status EXCEPT ![t] = s]
    /\ last' = [c EXCEPT !.seen = IF tui THEN <<Shown(t)>> ELSE <<>>]

\* Task.mark_running
mark_running(t) ==
    /\ t \in created
    /\ UNCHANGED <<graph, result, used, rejected, extra>>
    /\ set_status(t, "RUNNING", Call("mark_running", t, NoneV, "ok"))

\* Task.mark_skipped
mark_skipped(t) ==
    /\ t \in created
    /\ UNCHANGED <<graph, result, used, rejected, extra>>
    /\ set_status(t, "SKIPPED", Call("mark_skipped", t, NoneV, "ok"))

\* mark_failed with the guard the success tool has: a successful task is
\* left alone
do_mark_failed_guarded(t, reason, c) ==
    IF status[t] = "SUCCESSFUL"
    THEN /\ UNCHANGED <<status, result>>
         /\ last' = c
    ELSE /\ result' = [result EXCEPT ![t] = reason]
         /\ set_status(t, "FAILED", c)

\* mark_failed that sets the status and keeps the result there was
do_mark_failed_keep_result(t, reason, c) ==
    /\ UNCHANGED result
    /\ set_status(t, "FAILED", c)

\* mark_failed that also fails every task that waits for the failed one
do_mark_failed_propagate(t, reason, c) ==
    /\ result' = [result EXCEPT ![t] = reason]
    /\ status' = [u \in TaskIds |->
                     IF u = t \/ t \in depends_on[u] THEN "FAILED"
                     ELSE status[u]]
    /\ last' = [c EXCEPT !.seen = IF tui THEN <<Shown(t)>> ELSE <<>>]

\* the body of Task.mark_failed, in the call recorded in c
do_mark_failed(t, reason, c) ==
    /\ result' = [result EXCEPT ![t] = reason]
    /\ set_status(t, "FAILED", c)

\* Task.mark_failed
mark_failed(t, reason) ==
    /\ t \in created
    /\ UNCHANGED <<graph, used, rejected, extra>>
    /\ do_mark_failed(t, reason, Call("mark_failed", t, reason, "ok"))

\* the call record of a mark_successful made as `op` with argument `arg`,
\* given what validate_result did
SuccessCall(op, t, arg, v) ==
    [Call(op, t, arg, IF v.ok THEN "ok" ELSE "invalid_result")
        EXCEPT !.vin = v.vin]

\* mark_successful storing the raw result before it is validated
do_mark_successful_store_first(t, raw, op, arg) ==
    LET v == validate_result(t, raw) IN
    IF v.ok
    THEN /\ result' = [result EXCEPT ![t] = v.val]
         /\ set_status(t, "SUCCESSFUL", SuccessCall(op, t, arg, v))
    ELSE /\ result' = [result EXCEPT ![t] = raw]
         /\ UNCHANGED status
         /\ last' = SuccessCall(op, t, arg, v)

\* the body of Task.mark_successful, called as `op` with argument `arg`
do_mark_successful(t, raw, op, arg) ==
    LET v == validate_result(t, raw) IN
    IF v.ok
    THEN /\ result' = [result EXCEPT ![t] = v.val]
         /\ set_status(t, "SUCCESSFUL", SuccessCall(op, t, arg, v))
    ELSE /\ UNCHANGED <<status, result>>
         /\ last' = SuccessCall(op, t, arg, v)

\* Task.mark_successful
mark_successful(t, raw) ==
    /\ t \in created
    /\ UNCHANGED <<graph, used, rejected, extra>>
    /\ do_mark_successful(t, raw, "mark_successful", raw)

\* --------------------------------------------------- the completion tools
\* the options numbered from the last to the first
Options_reversed(t) ==
    IF result_type[t].kind = "labels"
    THEN [i \in 0..(Len(result_type[t].opts) - 1) |->
             result_type[t].opts[Len(result_type[t].opts) - i]]
    ELSE [i \in {} |-> NoneV]

\* the `options` dict built by Task.create_success_tool
Options(t) ==
    IF result_type[t].kind = "labels"
    THEN [i \in 0..(Len(result_type[t].opts) - 1) |-> result_type[t].opts[i + 1]]
    ELSE [i \in {} |-> NoneV]

\* `result not in options` / `options[result]`
InOptions(arg, options) == arg[1] = "int" /\ arg[2] \in DOMAIN options

\* The success tool of the task has now completed, if the call did, and
\* has failed on its argument, if the call did that.
Used(t) ==
    /\ used' = [used EXCEPT ![t] = @ \/ ~Raised(last')]
    /\ rejected' = [rejected EXCEPT ![t] =
                       @ \/ last'.err \in {"invalid_option", "invalid_result"}]

\* the success tool without its already-successful guard
succeed_unguarded(t, arg) ==
    LET options == Options(t) IN
    /\ t \in created
    /\ UNCHANGED <<graph, extra>>
    /\ IF DOMAIN options # {} /\ ~InOptions(arg, options)
       THEN /\ last' = Call("succeed", t, arg, "invalid_option")
            /\ UNCHANGED <<status, result>>
       ELSE IF DOMAIN options # {}
       THEN do_mark_successful(t, options[arg[2]], "succeed", arg)
       ELSE do_mark_successful(t, arg, "succeed", arg)
    /\ Used(t)

\* the success tool used up by its first invocation, whether it completed
\* or failed on its argument
succeed_single_attempt(t, arg) ==
    LET options == Options(t) IN
    /\ t \in created
    /\ UNCHANGED <<graph, extra>>
    /\ IF is_successful(t) \/ rejected[t]
       THEN /\ last' = Call("succeed", t, arg, "already_successful")
            /\ UNCHANGED <<status, result>>
       ELSE IF DOMAIN options # {} /\ ~InOptions(arg, options)
       THEN /\ last' = Call("succeed", t, arg, "invalid_option")
            /\ UNCHANGED <<status, result>>
       ELSE IF DOMAIN options # {}
       THEN do_mark_successful(t, options[arg[2]], "succeed", arg)
       ELSE do_mark_successful(t, arg, "succeed", arg)
    /\ Used(t)

\* the tool `succeed` of Task.create_success_tool
succeed(t, arg) ==
    LET options == Options(t) IN
    /\ t \in created
    /\ UNCHANGED <<graph, extra>>
    /\ IF is_successful(t)
       THEN /\ last' = Call("succeed", t, arg, "already_successful")
            /\ UNCHANGED <<status, result>>
       ELSE IF DOMAIN options # {} /\ ~InOptions(arg, options)
       THEN /\ last' = Call("succeed", t, arg, "invalid_option")
            /\ UNCHANGED <<status, result>>
       ELSE IF DOMAIN options # {}
       THEN do_mark_successful(t, options[arg[2]], "succeed", arg)
       ELSE do_mark_successful(t, arg, "succeed", arg)
    /\ Used(t)

\* the tool `fail` of Task.create_fail_tool
fail(t, reason) ==
    /\ t \in created
    /\ UNCHANGED <<graph, used, rejected, extra>>
    /\ do_mark_failed(t, reason, Call("fail", t, reason, "ok"))

\* the schema Task.create_success_tool finds for the result: int for
\* Labels, none for result type None, the type itself when pydantic can
\* generate a schema for it, and otherwise nothing
result_schema(t) ==
    IF result_type[t].kind = "labels" THEN "int"
    ELSE IF result_type[t].kind = "none" THEN "none"
    ELSE IF result_type[t].kind = "custom" THEN "missing"
    ELSE result_type[t].kind

\* Task.create_success_tool: raises when no schema was found for the
\* result type, and otherwise returns the tool, of which the name is kept
create_success_tool(t) ==
    /\ t \in created
    /\ last' = IF result_schema(t) = "missing"
               THEN Call("create_success_tool", t, NoneV, "no_schema")
               ELSE [Call("create_success_tool", t, NoneV, "ok")
                        EXCEPT !.ret = success_tool_name(t)]
    /\ UNCHANGED <<graph, status, result, used, rejected, extra>>

\* ------------------------------------- the success tool, step by step
\* What an invocation of the success tool that is under way keeps: its
\* argument, the status it found, the validated value and its outcome.
Frame(arg, pre, val, out) ==
    [arg |-> arg, raw |-> arg, val |-> val, pre |-> pre, out |-> out]

\* An invocation ends with the outcome `out`.
Finish(th, out) ==
    /\ pc' = [pc EXCEPT ![th] = "done"]
    /\ frame' = [frame EXCEPT ![th].out = out]

\* the guard of an invocation that never finds the task successful
succeed_guard_open(th, t, arg) ==
    /\ t \in created /\ pc[th] = "idle"
    /\ frame' = [frame EXCEPT ![th] = Frame(arg, status[t], NoneV, "none")]
    /\ pc' = [pc EXCEPT ![th] = "validate"]
    /\ last' = Call("succeed_guard", t, arg, "ok")
    /\ UNCHANGED <<graph, status, result, used, rejected, settings, blocks>>

\* `if self.is_successful(): raise` of the tool `succeed`, in invocation th
succeed_guard(th, t, arg) ==
    /\ t \in created /\ pc[th] = "idle"
    /\ IF is_successful(t)
       THEN /\ frame' = [frame EXCEPT ![th] =
                            Frame(arg, status[t], NoneV, "already_successful")]
            /\ pc' = [pc EXCEPT ![th] = "done"]
            /\ last' = Call("succeed_guard", t, arg, "already_successful")
       ELSE /\ frame' = [frame EXCEPT ![th] =
                            Frame(arg, status[t], NoneV, "none")]
            /\ pc' = [pc EXCEPT ![th] = "validate"]
            /\ last' = Call("succeed_guard", t, arg, "ok")
    /\ UNCHANGED <<graph, status, result, used, rejected, settings, blocks>>

\* the option lookup of `succeed` and `self.validate_result(result)` of
\* mark_successful, in invocation th
succeed_validate(th, t) ==
    LET options == Options(t)
        arg == frame[th].arg
        raw == IF DOMAIN options # {} /\ InOptions(arg, options)
               THEN options[arg[2]] ELSE arg
        v == validate_result(t, raw)
    IN
    /\ t \in created /\ pc[th] = "validate"
    /\ IF DOMAIN options # {} /\ ~InOptions(arg, options)
       THEN /\ Finish(th, "invalid_option")
            /\ last' = Call("succeed_validate", t, arg, "invalid_option")
       ELSE IF ~v.ok
       THEN /\ Finish(th, "invalid_result")
            /\ last' = Call("succeed_validate", t, arg, "invalid_result")
       ELSE /\ frame' = [frame EXCEPT ![th].raw = raw, ![th].val = v.val]
            /\ pc' = [pc EXCEPT ![th] = "write_result"]
            /\ last' = Call("succeed_validate", t, arg, "ok")
    /\ UNCHANGED <<graph, status, result, used, rejected, settings, blocks>>

\* `self.result = ...` of mark_successful, in invocation th
succeed_write_result(th, t) ==
    /\ t \in created /\ pc[th] = "write_result"
    /\ result' = [result EXCEPT ![t] = frame[th].val]
    /\ pc' = [pc EXCEPT ![th] = "write_status"]
    /\ last' = Call("succeed_write_result", t, frame[th].arg, "ok")
    /\ UNCHANGED <<graph, status, used, rejected, settings, blocks, frame>>

\* `self.set_status(TaskStatus.SUCCESSFUL)` of mark_successful and the
\* return of `succeed`, in invocation th
succeed_write_status(th, t) ==
    /\ t \in created /\ pc[th] = "write_status"
    /\ set_status(t, "SUCCESSFUL",
                  Call("succeed_write_status", t, frame[th].arg, "ok"))
    /\ Finish(th, "ok")
    /\ UNCHANGED <<graph, result, used, rejected, settings, blocks>>

\* ------------------------------------------------------------------- run
\* run that raises for every task that did not succeed
run_outcome_raise_unless_successful(t) ==
    IF is_successful(t) THEN [err |-> "ok", ret |-> result[t]]
    ELSE [err |-> "failed", ret |-> result[t]]

\* the statements of Task.run / run_async after run_tasks returned: the
\* result of a successful task is returned, a failed task raises a
\* ValueError that carries its result, anything else returns None
run_outcome(t) ==
    IF is_successful(t) THEN [err |-> "ok", ret |-> result[t]]
    ELSE IF is_failed(t) THEN [err |-> "failed", ret |-> result[t]]
    ELSE [err |-> "ok", ret |-> NoneV]

\* Task.run / run_async / the wrapper of @task giving control back to the
\* caller; what run_tasks did to the task in between are the steps of the
\* mutators and tools made before this one.
run(t) ==
    /\ t \in created
    /\ last' = [Call("run", t, NoneV, run_outcome(t).err)
                   EXCEPT !.ret = run_outcome(t).ret]
    /\ UNCHANGED <<graph, status, result, used, rejected, extra>>

\* ------------------------------------------------- temporary_settings
\* hasattr(settings, attr)
hasattr(attr) == attr \in SettingFields \cup PrivateAttrs \cup MethodAttrs

\* settings.model_dump(exclude={"_prefect_context"}): the fields
model_dump == [a \in SettingFields |-> settings[a]]

\* The overrides a call can be given: up to MaxOverrides keyword arguments
\* <<attr, value>> of different names, in the order they were written.
AllAttrs == SettingFields \cup PrivateAttrs \cup MethodAttrs \cup MissingAttrs
Overrides ==
    {kw \in UNION {[1..n -> AllAttrs \X SettingValues] : n \in 1..MaxOverrides} :
        \A i \in DOMAIN kw, j \in DOMAIN kw : i # j => kw[i][1] # kw[j][1]}
Names(kw) == [i \in DOMAIN kw |-> kw[i][1]]

\* The settings and the error a loop ended with.
Loop(st, e) == [st |-> st, err |-> e]

\* the loop of the try block from the i-th override on: a name that is
\* no attribute raises AttributeError, setattr on a name that is an
\* attribute but neither a field nor a private attribute raises
\* ValueError, any other name is assigned
RECURSIVE apply_settings(_, _, _)
apply_settings(kw, i, st) ==
    IF i > Len(kw) THEN Loop(st, "ok")
    ELSE IF ~hasattr(kw[i][1]) THEN Loop(st, "AttributeError")
    ELSE IF kw[i][1] \in MethodAttrs THEN Loop(st, "ValueError")
    ELSE apply_settings(kw, i + 1, [st EXCEPT ![kw[i][1]] = kw[i][2]])

\* the loop of the finally block from the i-th name on, the block ending
\* with the error e: a name that is an attribute is assigned
\* old_settings[attr], which raises KeyError when the dump has no such key
RECURSIVE restore_settings(_, _, _, _, _)
restore_settings(names, i, st, old, e) ==
    IF i > Len(names) THEN Loop(st, e)
    ELSE IF ~hasattr(names[i])
    THEN restore_settings(names, i + 1, st, old, e)
    ELSE IF names[i] \notin DOMAIN old THEN Loop(st, "KeyError")
    ELSE restore_settings(names, i + 1,
                          [st EXCEPT ![names[i]] = old[names[i]]], old, e)

\* An open block: the dump taken on entry, the names overridden, and the
\* settings there were on entry.
Block(old, names, before) == [old |-> old, names |-> names, before |-> before]

\* temporary_settings up to its yield: the dump is taken and the overrides
\* are applied; when one of them raises, the finally block runs and the
\* call ends with the error.
temporary_settings(kw) ==
    LET old == model_dump
        applied == apply_settings(kw, 1, settings)
        undone == restore_settings(Names(kw), 1, applied.st, old, applied.err)
    IN  /\ IF applied.err = "ok"
           THEN /\ settings' = applied.st
                /\ blocks' = Append(blocks, Block(old, Names(kw), settings))
                /\ last' = Call("temporary_settings", NoTask,
                                <<"kwargs", kw>>, "ok")
           ELSE /\ settings' = undone.st
                /\ UNCHANGED blocks
                /\ last' = Call("temporary_settings", NoTask,
                                <<"kwargs", kw>>, undone.err)
        /\ UNCHANGED <<graph, status, result, used, rejected, pc, frame>>

\* the innermost block ends, its body having raised or not: the finally
\* block of temporary_settings runs
exit_settings(raised) ==
    LET top == blocks[Len(blocks)]
        undone == restore_settings(top.names, 1, settings, top.old,
                                   IF raised THEN "body_error" ELSE "ok")
    IN  /\ Len(blocks) > 0
        /\ settings' = undone.st
        /\ blocks' = SubSeq(blocks, 1, Len(blocks) - 1)
        /\ last' = Call("exit_settings", NoTask,
                        <<"kwargs", top.names>>, undone.err)
        /\ UNCHANGED <<graph, status, result, used, rejected, pc, frame>>

\* `controlflow.settings.attr = value` in the body of a block, or outside
assign_setting(attr, value) ==
    /\ settings' = [settings EXCEPT ![attr] = value]
    /\ last' = Call("assign_setting", NoTask, <<"kwargs", <<attr>>>>, "ok")
    /\ UNCHANGED <<graph, status, result, used, rejected, blocks, pc, frame>>

\* --------------------------------------------------------- specifications
\* Spec: one task of any result type and validator, driven through the
\* status mutators and its two completion tools, with or without an
\* observer, while run gives control back to its caller at any moment.
NewTask == \E rt \in ResultTypeArgs, rv \in Validators :
              created = {} /\ Create(1, rt, rv, NOTSET, {}, DefaultKw)
MarkRunning == \E t \in TaskIds : mark_running(t)
MarkSkipped == \E t \in TaskIds : mark_skipped(t)
MarkFailed == \E t \in TaskIds, r \in Reasons \cup {NoneV} : mark_failed(t, r)
MarkSuccessful == \E t \in TaskIds, raw \in RawValues : mark_successful(t, raw)
Succeed == \E t \in TaskIds, a \in RawValues : succeed(t, a)
Fail == \E t \in TaskIds, r \in Reasons : fail(t, r)
Run == \E t \in TaskIds : run(t)
Observe == \E on \in BOOLEAN : SetTui(on)

Next ==
    \/ NewTask
    \/ MarkRunning
    \/ MarkSkipped
    \/ MarkFailed
    \/ MarkSuccessful
    \/ Succeed
    \/ Fail
    \/ Run
    \/ Observe

Spec == Init /\ [][Next]_vars

\* SpecTools: one task of any result type and validator on which only its
\* two completion tools are invoked.
NextTools ==
    \/ NewTask
    \/ Succeed
    \/ Fail

SpecTools == Init /\ [][NextTools]_vars

\* The explicit dependency edges (self, task) made so far.
Edges == {e \in TaskIds \X TaskIds : e[1] \in downstreams[e[2]]}

\* SpecGraph: up to MaxTasks tasks built under explicit or ambient parents
\* and wired by add_subtask / add_dependency, with at most MaxDeps explicit
\* dependency edges and `with task:` blocks nested MaxDepth deep.
GCreate == \E t \in TaskIds, par \in {NOTSET, NoTask} \cup TaskIds,
              deps \in SUBSET TaskIds :
              /\ Cardinality(Edges) + Cardinality(deps) <= MaxDeps
              /\ Create(t, RT("none", <<>>), "none", par, deps, DefaultKw)
GAddSubtask == \E p \in TaskIds, c \in TaskIds : add_subtask(p, c)
GAddDependency == \E a \in TaskIds, b \in TaskIds :
                     /\ Cardinality(Edges \cup {<<a, b>>}) <= MaxDeps
                     /\ add_dependency(a, b)
GEnter == \E t \in TaskIds : Len(withs) < MaxDepth /\ Enter(t)
GExit == \E t \in TaskIds : Exit(t)

NextGraph ==
    \/ GCreate
    \/ GAddSubtask
    \/ GAddDependency
    \/ GEnter
    \/ GExit

SpecGraph == Init /\ [][NextGraph]_vars

\* SpecReady: up to MaxReadyTasks tasks, the same graph operations without
\* the ambient stack, while the status mutators run on the tasks.
ReadyRaw == {NoneV, IntV(0)}
RCreate == \E t \in 1..MaxReadyTasks, par \in {NoTask} \cup TaskIds,
              deps \in SUBSET TaskIds :
              /\ Cardinality(Edges) + Cardinality(deps) <= MaxDeps
              /\ Create(t, RT("none", <<>>), "none", par, deps, DefaultKw)
RMarkRunning == \E t \in TaskIds : mark_running(t)
RMarkSkipped == \E t \in TaskIds : mark_skipped(t)
RMarkFailed == \E t \in TaskIds, r \in Reasons : mark_failed(t, r)
RMarkSuccessful == \E t \in TaskIds, raw \in ReadyRaw : mark_successful(t, raw)

NextReady ==
    \/ RCreate
    \/ GAddSubtask
    \/ GAddDependency
    \/ RMarkRunning
    \/ RMarkSkipped
    \/ RMarkFailed
    \/ RMarkSuccessful

SpecReady == Init /\ [][NextReady]_vars

\* SpecContext: tasks built with earlier tasks as dependencies and as
\* values of their context, then set running or completed.
WithContext(c) == [DefaultFields EXCEPT !.context = 1, !.context_tasks = c]
XCreate == \E t \in TaskIds, deps \in SUBSET TaskIds, c \in SUBSET TaskIds :
              Create(t, RT("none", <<>>), "none", NoTask, deps,
                     Kw(WithContext(c), NoAgents, NoId))

NextContext ==
    \/ XCreate
    \/ RMarkRunning
    \/ RMarkSuccessful

SpecContext == Init /\ [][NextContext]_vars

\* SpecSettings: temporary_settings blocks nested up to MaxBlocks deep,
\* each ending normally or by an error of its body, with settings
\* assigned directly in between.
STemporarySettings == \E kw \in Overrides :
                         Len(blocks) < MaxBlocks /\ temporary_settings(kw)
SExit == \E raised \in BOOLEAN : exit_settings(raised)
SAssign == \E a \in SettingFields, v \in SettingValues :
              settings[a] # v /\ assign_setting(a, v)

NextSettings ==
    \/ STemporarySettings
    \/ SExit
    \/ SAssign

SpecSettings == Init /\ [][NextSettings]_vars

\* SpecCtx: tasks built with or without an explicit parent inside
\* `with task:` blocks nested up to MaxNest deep, a task being free to be
\* entered again while it is entered.
CCreate == \E t \in TaskIds, par \in {NOTSET, NoTask} \cup TaskIds :
              Create(t, RT("none", <<>>), "none", par, {}, DefaultKw)
CEnter == \E t \in TaskIds : Len(withs) < MaxNest /\ Enter(t)
CExit == \E t \in TaskIds : Exit(t)

NextCtx ==
    \/ CCreate
    \/ CEnter
    \/ CExit

SpecCtx == Init /\ [][NextCtx]_vars

\* SpecAgents: tasks built with or without agents under explicit parents,
\* re-wired by add_subtask, inside or outside a flow, and asked for their
\* agents.
AgentArgs ==
    {NoAgents, AgentList({})} \cup {AgentList({a}) : a \in AgentNames}
ACreate == \E t \in TaskIds, par \in {NoTask} \cup TaskIds, a \in AgentArgs :
              Create(t, RT("none", <<>>), "none", par, {},
                     Kw(DefaultFields, a, NoId))
AAddSubtask == \E p \in TaskIds, c \in TaskIds : add_subtask(p, c)
AEnterFlow == \E kind \in {"nodefault", "default"} : EnterFlow(kind)
AExitFlow == ExitFlow
AGetAgents == \E t \in TaskIds : GetAgents(t)

NextAgents ==
    \/ ACreate
    \/ AAddSubtask
    \/ AEnterFlow
    \/ AExitFlow
    \/ AGetAgents

SpecAgents == Init /\ [][NextAgents]_vars

\* SpecIds: up to MaxIdTasks tasks built from every combination of a few
\* values of the fields, with or without an id of the caller's.
IdFields ==
    [objective : {1, 2}, instructions : {0}, prompt : {0},
     context : {0, 1}, name : {0, 1}, context_tasks : {{}}]
IdResultTypes == {RT("str", <<>>), RT("int", <<>>)}
IdArgs == {NoId, GivenId(1)}
ICreate == \E t \in 1..MaxIdTasks, f \in IdFields, rt \in IdResultTypes,
              a \in AgentArgs, i \in IdArgs,
              par \in {NoTask} \cup (1..MaxIdTasks),
              deps \in SUBSET (1..MaxIdTasks) :
              Create(t, rt, "none", par, deps, Kw(f, a, i))

NextIds ==
    \/ ICreate

SpecIds == Init /\ [][NextIds]_vars

\* SpecFrame: up to MaxReadyTasks tasks built under a parent or on
\* dependencies, while the status mutators and the two completion tools
\* run on them.
FCreate == \E t \in 1..MaxReadyTasks, par \in {NoTask} \cup TaskIds,
              deps \in SUBSET TaskIds :
              Create(t, RT("none", <<>>), "none", par, deps, DefaultKw)
FSucceed == \E t \in TaskIds, a \in ReadyRaw : succeed(t, a)
FFail == \E t \in TaskIds, r \in Reasons : fail(t, r)

NextFrame ==
    \/ FCreate
    \/ RMarkRunning
    \/ RMarkSkipped
    \/ RMarkFailed
    \/ RMarkSuccessful
    \/ FSucceed
    \/ FFail

SpecFrame == Init /\ [][NextFrame]_vars

\* SpecShapes: up to MaxIdTasks tasks of a supported result type or of a
\* class without a schema, for which the success tool is created and to
\* which results are submitted.
ShapeArgs == {RT("custom", <<>>), RT("int", <<>>), RT("none", <<>>)}
ShapeRaw == {NoneV, IntV(1), TextV(0)}
HCreate == \E t \in 1..MaxIdTasks, rt \in ShapeArgs, rv \in {"none", "incr"} :
              Create(t, rt, rv, NoTask, {}, DefaultKw)
HCreateSuccessTool == \E t \in TaskIds : create_success_tool(t)
HMarkSuccessful == \E t \in TaskIds, raw \in ShapeRaw : mark_successful(t, raw)

NextShapes ==
    \/ HCreate
    \/ HCreateSuccessTool
    \/ HMarkSuccessful

SpecShapes == Init /\ [][NextShapes]_vars

\* SpecRace: one task and the invocations of its success tool, each
\* made once, their statements interleaved in every order.
RaceArgs == {IntV(0), IntV(1), TextV(0)}
KCreate == \E rt \in ResultTypeArgs, rv \in {"none", "incr"} :
              created = {} /\ Create(1, rt, rv, NoTask, {}, DefaultKw)
KGuard == \E th \in Threads, a \in RaceArgs : succeed_guard(th, 1, a)
KValidate == \E th \in Threads : succeed_validate(th, 1)
KWriteResult == \E th \in Threads : succeed_write_result(th, 1)
KWriteStatus == \E th \in Threads : succeed_write_status(th, 1)

NextRace ==
    \/ KCreate
    \/ KGuard
    \/ KValidate
    \/ KWriteResult
    \/ KWriteStatus

SpecRace == Init /\ [][NextRace]_vars

\* ================================================================ claims
\* ---------------------------------------------------------------- C1
\* A raw value is rejected when a result is given though none is expected,
\* when it is not among the enumerated options, when it does not have the
\* declared shape, or when validation (the custom validator included) fails.
C1_Rejected(t, raw) ==
    LET rt == result_type[t] IN
    \/ rt.kind = "none" /\ raw # NoneV
    \/ rt.kind = "labels" /\ raw \notin {rt.opts[i] : i \in 1..Len(rt.opts)}
    \/ rt.kind = "int" /\ raw[1] \notin {"int", "numstr"}
    \/ rt.kind = "str" /\ raw[1] \notin {"numstr", "text"}
    \/ ~validate_result(t, raw).ok

\* C1: for every task, in every status, mark_successful(raw) with a raw value
\* that fails result validation raises and leaves the status and the stored
\* result of the task exactly as they were before the call.
C1_InvalidResultLeavesTask ==
    [][\A t \in TaskIds :
         (last'.op = "mark_successful" /\ last'.task = t
            /\ C1_Rejected(t, last'.arg))
         => (Raised(last') /\ status' = status /\ result' = result)]_vars

\* C1 witness: a failed task, holding its failure reason, on which
\* mark_successful has just raised.
C1_Witness ==
    /\ last.op = "mark_successful" /\ last.err = "invalid_result"
    /\ last.pre = "FAILED"
    /\ status[last.task] = "FAILED" /\ result[last.task] = TextV(7)

\* ---------------------------------------------------------------- C2
\* C2: in every reachable state, T.is_ready() is true if and only if T is
\* PENDING or RUNNING and every task in T.depends_on is SUCCESSFUL, FAILED
\* or SKIPPED.
C2_ReadyIff ==
    \A t \in created :
        is_ready(t) <=>
            /\ status[t] \in {"PENDING", "RUNNING"}
            /\ \A d \in depends_on[t] :
                  status[d] \in {"SUCCESSFUL", "FAILED", "SKIPPED"}

\* C2 witness: a running task is ready although one of its dependencies
\* has failed.
C2_Witness ==
    \E t \in created :
        /\ status[t] = "RUNNING" /\ is_ready(t)
        /\ \E d \in depends_on[t] : status[d] = "FAILED"

\* ---------------------------------------------------------------- C3
\* B, a dependency of A, becomes complete in this step.
C3_Completes(a, b) ==
    b \in depends_on[a] /\ is_incomplete(b) /\ is_complete(b)'
C3_NotReadyWhileIncomplete ==
    \A a \in created, b \in created :
        (b \in depends_on[a] /\ is_incomplete(b)) => ~is_ready(a)

\* C3 as stated: for A depending on B, A.is_ready() is false wherever B is
\* incomplete and true in the state right after B becomes complete.
C3_AsStated ==
    /\ []C3_NotReadyWhileIncomplete
    /\ [][\A a \in created, b \in created :
            C3_Completes(a, b) => is_ready(a)']_vars

\* C3 amended: for A depending on B, A.is_ready() is false wherever B is
\* incomplete; in the state right after B becomes complete A.is_ready() is
\* true if and only if A is itself incomplete and every other task in
\* A.depends_on is complete.
C3_ReadyAfterCompletion ==
    /\ []C3_NotReadyWhileIncomplete
    /\ [][\A a \in created, b \in created :
            C3_Completes(a, b) =>
               (is_ready(a)' <=>
                   /\ status'[a] \in {"PENDING", "RUNNING"}
                   /\ \A d \in depends_on[a] \ {b} :
                         status'[d] \in {"SUCCESSFUL", "FAILED", "SKIPPED"})]_vars

\* C3 witness: B, the only dependency of the pending task A, has just been
\* skipped and A is ready.
C3_Witness ==
    \E a \in created, b \in created :
        /\ a # b /\ depends_on[a] = {b} /\ status[a] = "PENDING"
        /\ last.op = "mark_skipped" /\ last.task = b
        /\ last.pre \in {"PENDING", "RUNNING"}
        /\ is_ready(a)

\* ---------------------------------------------------------------- C4
\* C4: after any constructions and add_subtask calls, every task S with
\* parent P is in P.subtasks and in P.depends_on, and every task in
\* P.subtasks has P as its parent.
C4_ParentOwnsSubtasks ==
    /\ \A s \in created :
          parent[s] # NoTask =>
             (s \in subtasks[parent[s]] /\ s \in depends_on[parent[s]])
    /\ \A p \in created : \A s \in subtasks[p] : parent[s] = p

\* C4 witness: one task got its parent from the ambient stack and another
\* by add_subtask.
C4_Witness ==
    \E s1 \in created, s2 \in created :
        /\ s1 # s2 /\ parent[s1] \notin {NoTask, s1}
        /\ parent[s2] \notin {NoTask, s2}
        /\ last.op = "add_subtask" /\ last.err = "ok"
        /\ last.arg = IntV(s2) /\ last.task = parent[s2]
        /\ Len(ctx_tasks) > 0 /\ parent[s1] = ctx_tasks[1]

\* ---------------------------------------------------------------- C5
\* C5: after any constructions, add_dependency and add_subtask calls, for
\* every task T and every D in T.depends_on, T is in the downstream set of
\* D, the implicit parent-depends-on-subtask edges included.
C5_EdgesBidirectional ==
    \A t \in created : \A d \in depends_on[t] : t \in downstreams[d]

\* ---------------------------------------------------------------- C6
\* C6: when child has a parent P1, P2.add_subtask(child) with P2 # P1 fails
\* and changes nothing: child keeps P1, and P2.subtasks and P2.depends_on
\* are as before.
C6_ReparentFails ==
    [][\A p2 \in TaskIds, child \in TaskIds :
         (/\ last'.op = "add_subtask" /\ last'.task = p2
          /\ last'.arg = IntV(child)
          /\ parent[child] \notin {NoTask, p2})
         => /\ last'.err = "has_parent"
            /\ parent' = parent
            /\ subtasks' = subtasks
            /\ depends_on' = depends_on
            /\ downstreams' = downstreams]_vars

\* C6 witness: add_subtask has just raised for a child whose parent is a
\* third task.
C6_Witness ==
    /\ last.op = "add_subtask" /\ last.err = "has_parent"
    /\ last.arg[2] # last.task
    /\ parent[last.arg[2]] \notin {NoTask, last.task, last.arg[2]}
    /\ last.arg[2] \notin subtasks[last.task]

\* ---------------------------------------------------------------- C7
\* The success-tool call just made on a task with N enumerated options.
C7_Index(t) == last'.arg[2]
C7_InRange(t) ==
    last'.arg[1] = "int" /\ C7_Index(t) \in 0..(Len(result_type[t].opts) - 1)
C7_Call(t) ==
    /\ last'.op = "succeed" /\ last'.task = t
    /\ result_type[t].kind = "labels"
C7_OutOfRangeFails(t) ==
    (C7_Call(t) /\ last'.arg[1] = "int" /\ ~C7_InRange(t))
        => (Raised(last') /\ status' = status /\ result' = result)

\* C7 as stated: on a task with N enumerated options that is not SUCCESSFUL
\* the success tool called with i in 0..N-1 sets result to the i-th option
\* and status to SUCCESSFUL; called with any other integer it fails and
\* leaves status and result unchanged.
C7_AsStated ==
    [][\A t \in TaskIds :
         /\ (C7_Call(t) /\ C7_InRange(t) /\ status[t] # "SUCCESSFUL")
               => /\ status'[t] = "SUCCESSFUL"
                  /\ result'[t] = result_type[t].opts[C7_Index(t) + 1]
         /\ C7_OutOfRangeFails(t)]_vars

\* C7 amended: with i in 0..N-1 and no result_validator the result is the
\* i-th option; with a result_validator the i-th option is passed to it and
\* the result is what it returns, or, when it rejects the option, the call
\* fails and leaves status and result unchanged.  Any other integer fails
\* and leaves status and result unchanged.
C7_IndexSelectsOption ==
    [][\A t \in TaskIds :
         /\ (C7_Call(t) /\ C7_InRange(t) /\ status[t] # "SUCCESSFUL")
               => LET opt == result_type[t].opts[C7_Index(t) + 1]
                      rv == result_validator[t]
                  IN  IF rv = "none" THEN
                          /\ ~Raised(last')
                          /\ status'[t] = "SUCCESSFUL" /\ result'[t] = opt
                      ELSE IF ApplyValidator(rv, opt).ok THEN
                          /\ ~Raised(last')
                          /\ status'[t] = "SUCCESSFUL"
                          /\ result'[t] = ApplyValidator(rv, opt).val
                      ELSE
                          /\ Raised(last')
                          /\ status' = status /\ result' = result
         /\ C7_OutOfRangeFails(t)]_vars

\* C7 witness: index 1 of two different options was chosen on a running
\* task and the second option is the result.
C7_Witness ==
    /\ last.op = "succeed" /\ last.err = "ok" /\ last.arg = IntV(1)
    /\ last.pre = "RUNNING"
    /\ result_type[last.task] = RT("labels", <<TextV(1), IntV(0)>>)
    /\ status[last.task] = "SUCCESSFUL" /\ result[last.task] = IntV(0)

\* ---------------------------------------------------------------- C8
\* A completion (mark_successful or the success tool) of a task that
\* expects no result.
C8_Call(t) ==
    /\ last'.op \in {"mark_successful", "succeed"} /\ last'.task = t
    /\ result_type[t].kind = "none"
C8_ValueFails(t) ==
    (C8_Call(t) /\ last'.arg # NoneV)
        => (Raised(last') /\ status' = status /\ result' = result)

\* C8 as stated: a task with no expected result completed with no value
\* becomes SUCCESSFUL with a null result; completed with any non-null value
\* the call fails and leaves status and result unchanged.
C8_AsStated ==
    [][\A t \in TaskIds :
         /\ (C8_Call(t) /\ last'.arg = NoneV)
               => (status'[t] = "SUCCESSFUL" /\ result'[t] = NoneV)
         /\ C8_ValueFails(t)]_vars

\* C8 amended: completed with no value and no result_validator the task
\* becomes SUCCESSFUL with a null result; with a result_validator, null is
\* passed to it and the task becomes SUCCESSFUL with what it returns, or,
\* when it rejects null, the call fails and leaves status and result
\* unchanged.  Any non-null value fails and leaves status and result
\* unchanged.
C8_NoResultTask ==
    [][\A t \in TaskIds :
         /\ (C8_Call(t) /\ last'.arg = NoneV)
               => LET rv == result_validator[t] IN
                  IF rv = "none" THEN
                      status'[t] = "SUCCESSFUL" /\ result'[t] = NoneV
                  ELSE IF ApplyValidator(rv, NoneV).ok THEN
                      /\ status'[t] = "SUCCESSFUL"
                      /\ result'[t] = ApplyValidator(rv, NoneV).val
                  ELSE
                      Raised(last') /\ status' = status /\ result' = result
         /\ C8_ValueFails(t)]_vars

\* C8 witness: a value was offered to a failed task that expects no result
\* and the call raised, the task still holding its failure reason.
C8_Witness ==
    /\ last.op \in {"mark_successful", "succeed"}
    /\ result_type[last.task].kind = "none" /\ last.arg = IntV(0)
    /\ Raised(last) /\ last.pre = "FAILED"
    /\ status[last.task] = "FAILED" /\ result[last.task] = TextV(7)

\* ---------------------------------------------------------------- C9
C9_GuardHolds(t) ==
    (last'.op = "succeed" /\ last'.task = t /\ status[t] = "SUCCESSFUL")
        => /\ last'.err = "already_successful"
           /\ status' = status /\ result' = result

\* C9 as stated: the success tool called on a SUCCESSFUL task fails with
\* 'already marked successful' for every argument and leaves status and
\* result unchanged; the second of two consecutive success-tool calls on
\* the same task always fails.
C9_AsStated ==
    [][\A t \in TaskIds :
         /\ C9_GuardHolds(t)
         /\ (last.op = "succeed" /\ last.task = t
               /\ last'.op = "succeed" /\ last'.task = t)
               => Raised(last')]_vars

\* C9 amended: the same, but the second of two consecutive success-tool
\* calls on the same task fails whenever the first one succeeded.
C9_AlreadySuccessful ==
    [][\A t \in TaskIds :
         /\ C9_GuardHolds(t)
         /\ (last.op = "succeed" /\ last.task = t /\ ~Raised(last)
               /\ last'.op = "succeed" /\ last'.task = t)
               => last'.err = "already_successful"]_vars

\* C9 witness: the success tool was called with a valid argument on a task
\* that was already SUCCESSFUL and raised; the earlier result is kept.
C9_Witness ==
    /\ last.op = "succeed" /\ last.err = "already_successful"
    /\ last.pre = "SUCCESSFUL" /\ last.arg = IntV(2)
    /\ result_type[last.task].kind = "int"
    /\ result_validator[last.task] = "none"
    /\ status[last.task] = "SUCCESSFUL" /\ result[last.task] = IntV(1)

\* ---------------------------------------------------------------- C10
\* C10: the failure tool called with reason r, on a task in any status,
\* never fails and leaves the status FAILED and the result equal to r; the
\* result of a SUCCESSFUL task is overwritten by r.
C10_FailToolUnconditional ==
    last.op = "fail"
        => /\ ~Raised(last)
           /\ status[last.task] = "FAILED"
           /\ result[last.task] = last.arg

\* C10 witness: the failure tool has run on a task that was SUCCESSFUL and
\* the result is now the reason.
C10_Witness ==
    /\ last.op = "fail" /\ last.pre = "SUCCESSFUL"
    /\ status[last.task] = "FAILED" /\ result[last.task] = TextV(7)

\* ---------------------------------------------------------------- C11
\* The raw value a call hands to validate_result: the option the index
\* stands for when the success tool of an enumerated task is called, the
\* argument itself otherwise.
C11_Raw(t) ==
    IF last'.op = "succeed" /\ DOMAIN Options(t) # {}
    THEN Options(t)[last'.arg[2]] ELSE last'.arg

\* A call of mark_successful or of the success tool that got as far as
\* validate_result, on a task with a result_validator.
C11_Call(t) ==
    /\ last'.task = t /\ last'.op \in {"mark_successful", "succeed"}
    /\ last'.err \in {"ok", "invalid_result"}
    /\ result_validator[t] # "none"

C11_WitnessRejected ==
    /\ last.op = "succeed" /\ last.arg = IntV(-1) /\ Raised(last)
    /\ result_validator[last.task] = "nonneg"
    /\ last.vin = IntV(-1) /\ last.pre = "RUNNING"
    /\ status[last.task] = "RUNNING" /\ result[last.task] = NoneV

\* ---------------------------------------------------------------- C12
\* The status a call of a mutator aims at: mark_successful aims at
\* SUCCESSFUL when its argument passes validate_result.
C12_Target(t) ==
    IF last'.op = "mark_running" THEN "RUNNING"
    ELSE IF last'.op = "mark_failed" THEN "FAILED"
    ELSE IF last'.op = "mark_skipped" THEN "SKIPPED"
    ELSE IF last'.op = "mark_successful"
            /\ validate_result(t, last'.arg).ok THEN "SUCCESSFUL"
    ELSE "none"

\* C12: whatever status the task has when the call is made, mark_running
\* leaves it RUNNING, mark_failed FAILED, mark_skipped SKIPPED and
\* mark_successful with a valid result SUCCESSFUL, and none of these
\* calls raises.
C12_Unguarded ==
    [][\A t \in TaskIds :
         (last'.task = t /\ C12_Target(t) # "none")
         => (~Raised(last') /\ last'.pre = status[t]
               /\ status'[t] = C12_Target(t))]_vars

\* C12 witness: a failed task was marked successful with a valid result
\* and is successful.
C12_Witness ==
    /\ last.op = "mark_successful" /\ ~Raised(last) /\ last.pre = "FAILED"
    /\ status[last.task] = "SUCCESSFUL"

\* C12 further witnesses: a successful task was skipped; a skipped task
\* was set running; a successful task was failed.
C12_WitnessSkipped ==
    /\ last.op = "mark_skipped" /\ last.pre = "SUCCESSFUL"
    /\ status[last.task] = "SKIPPED"
C12_WitnessRunning ==
    /\ last.op = "mark_running" /\ last.pre = "SKIPPED"
    /\ status[last.task] = "RUNNING"
C12_WitnessFailed ==
    /\ last.op = "mark_failed" /\ last.pre = "SUCCESSFUL"
    /\ status[last.task] = "FAILED"

\* ---------------------------------------------------------------- C13
\* C13: when run gives control back, whatever was done to the task
\* before: a SUCCESSFUL task has its stored result returned, a FAILED task
\* raises an error that carries its stored result (the failure reason), a
\* task in any other status returns no result and raises nothing, and the
\* return itself changes neither status nor result.
C13_RunOutcome ==
    [][\A t \in TaskIds :
         (last'.op = "run" /\ last'.task = t)
         => /\ status' = status /\ result' = result
            /\ status[t] = "SUCCESSFUL"
                 => (~Raised(last') /\ last'.ret = result[t])
            /\ status[t] = "FAILED"
                 => (last'.err = "failed" /\ last'.ret = result[t])
            /\ status[t] \notin {"SUCCESSFUL", "FAILED"}
                 => (~Raised(last') /\ last'.ret = NoneV)]_vars

\* C13 witness: run raised on a failed task, carrying the reason the
\* failure tool had stored.
C13_Witness ==
    /\ last.op = "run" /\ last.err = "failed" /\ last.ret = TextV(7)
    /\ status[last.task] = "FAILED" /\ result[last.task] = TextV(7)

\* C13 further witnesses: run returned the validated result 2 of a
\* successful task; run returned nothing for a skipped task that still
\* holds the result of an earlier success.
C13_WitnessSuccessful ==
    /\ last.op = "run" /\ ~Raised(last) /\ last.ret = IntV(2)
    /\ status[last.task] = "SUCCESSFUL" /\ result[last.task] = IntV(2)
C13_WitnessSkipped ==
    /\ last.op = "run" /\ ~Raised(last) /\ last.ret = NoneV
    /\ status[last.task] = "SKIPPED" /\ result[last.task] = IntV(2)

\* ---------------------------------------------------------------- C14
\* The nearest task with an explicit agent assignment in the chain t,
\* parent of t, parent of that, ..., or NoTask when the chain has none;
\* `seen` are the tasks of the chain already looked at.
RECURSIVE C14_Nearest(_, _)
C14_Nearest(t, seen) ==
    IF agents[t] # NoAgents THEN t
    ELSE IF parent[t] = NoTask \/ parent[t] \in seen \cup {t} THEN NoTask
    ELSE C14_Nearest(parent[t], seen \cup {t})

\* What the claim says get_agents gives on t.
C14_Expected(t) ==
    IF C14_Nearest(t, {}) # NoTask
    THEN Agents(agents[C14_Nearest(t, {})][1])
    ELSE IF flow = "default" THEN Agents({"flow_agent"})
    ELSE Agents({"default_agent"})

\* The parent chain of t comes back to a task it passed.
RECURSIVE C14_OnCycle(_, _)
C14_OnCycle(t, seen) ==
    IF parent[t] = NoTask THEN FALSE
    ELSE IF parent[t] \in seen \cup {t} THEN TRUE
    ELSE C14_OnCycle(parent[t], seen \cup {t})

\* C14: get_agents on a task returns the agents of the nearest task of its
\* parent chain that has an explicit assignment, and when the chain has
\* none the default agent of the enclosing flow if there is a flow with
\* one, and the process-wide default agent otherwise.
C14_NearestAssignmentWins ==
    last.op = "get_agents" => last.ret = C14_Expected(last.task)

\* C14 on tasks whose parent chain ends: there get_agents returns what the
\* claim says.
C14_OnEndingChains ==
    (last.op = "get_agents" /\ ~C14_OnCycle(last.task, {}))
        => (~Raised(last) /\ last.ret = C14_Expected(last.task))

\* C14: a call of get_agents that went past a parent without agents and
\* returned the agents of the grandparent, inside a flow that has a default
\* agent.
C14_Witness ==
    /\ last.op = "get_agents" /\ ~Raised(last)
    /\ flow = "default"
    /\ agents[last.task] = NoAgents
    /\ parent[last.task] # NoTask
    /\ agents[parent[last.task]] = NoAgents
    /\ parent[parent[last.task]] \notin {NoTask, last.task}
    /\ agents[parent[parent[last.task]]] = AgentList({"a2"})
    /\ last.ret = Agents({"a2"})

\* ---------------------------------------------------------------- C15
\* The two tasks have identical values in the fields the fingerprint is
\* made of: objective, instructions, result shape, prompt and context (the
\* type name is "Task" for both).
C15_SameFingerprintFields(a, b) ==
    /\ fields[a].objective = fields[b].objective
    /\ fields[a].instructions = fields[b].instructions
    /\ result_type[a] = result_type[b]
    /\ fields[a].prompt = fields[b].prompt
    /\ str_context(fields[a]) = str_context(fields[b])

\* The task was constructed without an id of the caller's.
C15_Generated(t) == id[t] \notin IdArgs

C16_ToolNamesDistinct ==
    \A a \in created, b \in created :
        a # b => /\ success_tool_name(a) # success_tool_name(b)
                 /\ fail_tool_name(a) # fail_tool_name(b)

\* C16 on tasks whose fingerprint fields differ and that were given no id:
\* their tools have different names.
C16_DistinctWhenFieldsDiffer ==
    \A a \in created, b \in created :
        (a # b /\ C15_Generated(a) /\ C15_Generated(b)
           /\ ~C15_SameFingerprintFields(a, b))
        => /\ success_tool_name(a) # success_tool_name(b)
           /\ fail_tool_name(a) # fail_tool_name(b)

\* ---------------------------------------------------------------- C17
\* The step is a mark_successful on t, made directly or by the success
\* tool, that did not raise.
C17_Succeeded(t) ==
    /\ last'.task = t /\ last'.op \in {"mark_successful", "succeed"}
    /\ ~Raised(last')

\* The step is a mark_failed on t, made directly or by the failure tool.
C17_Failed(t) ==
    last'.task = t /\ last'.op \in {"mark_failed", "fail"}

\* C17: over any sequence of mutator and tool calls, a SUCCESSFUL task
\* holds the validated value of the most recent mark_successful that did
\* not raise, and a FAILED task holds the reason of the most recent
\* mark_failed.  Step by step: a mark_successful that does not raise leaves
\* the task SUCCESSFUL with the validated value of its argument, a
\* mark_failed leaves it FAILED with its reason, and any other step either
\* takes the task out of that status or leaves status and result alone.
C17_ResultOfLastCompletion ==
    [][\A t \in TaskIds :
         /\ C17_Succeeded(t)
              => /\ status'[t] = "SUCCESSFUL"
                 /\ validate_result(t, C11_Raw(t)).ok
                 /\ result'[t] = validate_result(t, C11_Raw(t)).val
         /\ C17_Failed(t)
              => (status'[t] = "FAILED" /\ result'[t] = last'.arg)
         /\ (status'[t] = "SUCCESSFUL" /\ ~C17_Succeeded(t))
              => (status[t] = "SUCCESSFUL" /\ result'[t] = result[t])
         /\ (status'[t] = "FAILED" /\ ~C17_Failed(t))
              => (status[t] = "FAILED" /\ result'[t] = result[t])]_vars

\* C17 witness: a task that succeeded with the validated value 2 and on
\* which a later mark_successful raised: it is SUCCESSFUL and still holds 2.
C17_Witness ==
    /\ last.op = "mark_successful" /\ Raised(last)
    /\ last.pre = "SUCCESSFUL"
    /\ result_validator[last.task] = "incr"
    /\ status[last.task] = "SUCCESSFUL" /\ result[last.task] = IntV(2)

\* C17 second witness: a failed task on which the success tool raised: it
\* is FAILED and still holds the reason.
C17_WitnessFailed ==
    /\ last.op = "succeed" /\ Raised(last) /\ last.pre = "FAILED"
    /\ status[last.task] = "FAILED" /\ result[last.task] = TextV(7)

\* ---------------------------------------------------------------- C18
\* The result the task holds after a mutator call that goes through: the
\* reason for mark_failed, the validated value for mark_successful, the
\* result it had for mark_running and mark_skipped.
C18_NewResult(t) ==
    IF last'.op = "mark_failed" THEN last'.arg
    ELSE IF last'.op = "mark_successful"
    THEN validate_result(t, last'.arg).val
    ELSE result[t]

\* C18: with an observer registered, every mark_running, mark_failed and
\* mark_skipped and every mark_successful whose argument passes validation
\* notifies the observer exactly once, and what the observer is shown is
\* the task with its new status and its new result; a mark_successful
\* that fails validation notifies nobody and changes nothing; without an
\* observer nobody is notified and the transition happens all the same.
C18_ObserverNotified ==
    [][\A t \in TaskIds :
         (last'.task = t
            /\ last'.op \in {"mark_running", "mark_failed", "mark_skipped",
                             "mark_successful"})
         => IF C12_Target(t) # "none"
            THEN /\ status'[t] = C12_Target(t)
                 /\ result'[t] = C18_NewResult(t)
                 /\ last'.seen =
                      IF tui THEN <<<<C12_Target(t), C18_NewResult(t)>>>>
                      ELSE <<>>
            ELSE /\ last'.seen = <<>>
                 /\ status' = status /\ result' = result]_vars

\* C18 witness: with an observer registered a running task was failed, and
\* the observer was shown, once, a FAILED task holding the reason.
C18_Witness ==
    /\ tui
    /\ last.op = "mark_failed" /\ last.pre = "RUNNING"
    /\ last.seen = <<<<"FAILED", TextV(7)>>>>
    /\ status[last.task] = "FAILED" /\ result[last.task] = TextV(7)

\* C18 further witnesses: with an observer registered a mark_successful
\* failed validation and nobody was notified; without an observer a
\* pending task was marked successful and nobody was notified.
C18_WitnessRejected ==
    /\ tui /\ last.op = "mark_successful" /\ Raised(last)
    /\ last.seen = <<>>
C18_WitnessNoObserver ==
    /\ ~tui /\ last.op = "mark_successful" /\ ~Raised(last)
    /\ last.pre = "PENDING" /\ last.seen = <<>>
    /\ status[last.task] = "SUCCESSFUL"

\* ---------------------------------------------------------------- C19
\* The innermost `with task:` block the program is inside of, NoTask when
\* it is inside none.
C19_Innermost ==
    IF withs = <<>> THEN NoTask ELSE withs[Len(withs)]

\* C19: a task constructed without an explicit parent gets the task of
\* the innermost open `with task:` block as parent, and no parent when no
\* block is open; the ambient stack always lists the open blocks from the
\* outermost to the innermost, and when a block ends, nested or a repeated
\* entry of the same task, the stack is again the one there was before it
\* was entered.
C19_AmbientParentLifo ==
    /\ [](ctx_tasks = withs)
    /\ [][/\ (last'.op = "Task" /\ last'.arg = IntV(NOTSET))
               => parent'[last'.task] = C19_Innermost
          /\ last'.op = "enter"
               => (ctx_tasks' = Append(ctx_tasks, last'.task)
                     /\ cm_stack'[last'.task][Len(cm_stack'[last'.task])]
                           = ctx_tasks)
          /\ last'.op = "exit"
               => (ctx_tasks' = cm_stack[last'.task][Len(cm_stack[last'.task])]
                     /\ ctx_tasks' = SubSeq(withs, 1, Len(withs) - 1))]_vars

\* C19 witness: inside `with t1: with t2: with t1:` the innermost block
\* has ended, and the current task is t2 again, inside t1.
C19_Witness ==
    /\ last.op = "exit" /\ last.task = 1
    /\ ctx_tasks = <<1, 2>>
    /\ cm_stack[1] = <<<<>>>> /\ cm_stack[2] = <<<<1>>>>

\* C19 second witness: a task constructed without a parent inside
\* `with t1: with t2:` has t2 as parent; a third one constructed outside
\* every block has none.
C19_WitnessParent ==
    /\ last.op = "Task" /\ last.arg = IntV(NOTSET) /\ last.task = 3
    /\ ctx_tasks = <<1, 2>> /\ parent[3] = 2
C19_WitnessNoParent ==
    /\ last.op = "Task" /\ last.arg = IntV(NOTSET) /\ last.task = 3
    /\ ctx_tasks = <<>> /\ parent[3] = NoTask /\ parent[2] = 1

\* ---------------------------------------------------------------- C20
\* C20: over any sequence of invocations of the two completion tools of a
\* task, at most one invocation of the success tool completes: an
\* invocation of the success tool never completes on a task whose success
\* tool has completed before.
C20_SuccessToolOnce ==
    [][\A t \in TaskIds :
         (last'.task = t /\ last'.op = "succeed" /\ ~Raised(last'))
         => ~used[t]]_vars

\* C20 while the task stays successful: the success tool does not complete
\* a second time on a task that is still SUCCESSFUL.
C20_OnceWhileSuccessful ==
    [][\A t \in TaskIds :
         (last'.task = t /\ last'.op = "succeed" /\ ~Raised(last'))
         => status[t] # "SUCCESSFUL"]_vars

\* C20: the success tool completed for the second time: the task had
\* succeeded, was failed by the failure tool and succeeded again.
C20_SecondSuccess ==
    /\ last.op = "succeed" /\ ~Raised(last) /\ last.pre = "FAILED"
    /\ used[last.task] /\ status[last.task] = "SUCCESSFUL"

\* ---------------------------------------------------------------- C21
\* C21: the tasks that are values of the context of a task are in its
\* depends_on set, and so the task is not ready while one of them is
\* incomplete.
C21_ContextTasksAreDependencies ==
    \A t \in created :
        /\ fields[t].context_tasks \subseteq depends_on[t]
        /\ is_ready(t) => \A c \in fields[t].context_tasks : is_complete(c)

\* C21: a task is ready although a task in its context is still pending.
C21_ReadyBeforeContext ==
    \E t \in created, c \in created :
        /\ c \in fields[t].context_tasks /\ c \notin depends_on[t]
        /\ status[c] = "PENDING" /\ is_ready(t)

\* ---------------------------------------------------------------- C22
\* The argument is one the success tool of the task accepts: an index of
\* an option when the task has options, and a value that passes
\* validate_result.
C22_Valid(t, arg) ==
    IF DOMAIN Options(t) # {}
    THEN InOptions(arg, Options(t))
           /\ validate_result(t, Options(t)[arg[2]]).ok
    ELSE validate_result(t, arg).ok

\* The value a valid argument stores.
C22_Value(t, arg) ==
    IF DOMAIN Options(t) # {}
    THEN validate_result(t, Options(t)[arg[2]]).val
    ELSE validate_result(t, arg).val

\* C22: an invocation of the success tool that fails leaves status and
\* result of the task as they were, and an invocation with a valid
\* argument on a task that is not successful completes, whatever
\* invocations failed before it: the task is SUCCESSFUL and holds the
\* validated value.
C22_RetryAfterRejection ==
    [][\A t \in TaskIds :
         (last'.task = t /\ last'.op = "succeed")
         => /\ Raised(last')
                 => (status' = status /\ result' = result /\ used' = used)
            /\ (status[t] # "SUCCESSFUL" /\ C22_Valid(t, last'.arg))
                 => /\ ~Raised(last')
                    /\ status'[t] = "SUCCESSFUL"
                    /\ result'[t] = C22_Value(t, last'.arg)]_vars

\* C22 witness: the success tool of a pending int task had failed on its
\* argument and then completed with the str "1": the task is SUCCESSFUL
\* with the int 1.
C22_Witness ==
    /\ last.op = "succeed" /\ ~Raised(last) /\ last.arg = NumStrV(1)
    /\ last.pre = "PENDING" /\ rejected[last.task]
    /\ result_type[last.task].kind = "int"
    /\ result_validator[last.task] = "none"
    /\ status[last.task] = "SUCCESSFUL" /\ result[last.task] = IntV(1)

\* ---------------------------------------------------------------- C23
\* C23: constructing a task with an empty list of agents fails with a
\* validation error and creates nothing: no task exists that did not
\* before, and no task gained a parent, a subtask, a dependency or a
\* downstream; constructing it with no agents or with a non-empty list
\* goes through and the new task has the agents it was given.
C23_EmptyAgentsRejected ==
    [][last'.op = "Task" =>
         IF last'.ret = <<"kw", AgentList({})>>
         THEN /\ last'.err = "validation_error"
              /\ UNCHANGED <<created, parent, subtasks, depends_on,
                             downstreams, status, result, decl>>
         ELSE /\ ~Raised(last')
              /\ created' = created \cup {last'.task}
              /\ last'.task \notin created
              /\ agents'[last'.task] = last'.ret[2]]_vars

\* C23 witness: a second task, given the first one as parent and an empty
\* list of agents, was refused; the first task has no subtask and no
\* dependency.
C23_Witness ==
    /\ last.op = "Task" /\ last.err = "validation_error"
    /\ last.ret = <<"kw", AgentList({})>> /\ last.arg = IntV(1)
    /\ created = {1}
    /\ subtasks[1] = {} /\ depends_on[1] = {} /\ parent[2] = NoTask

\* C23 further witnesses: a task accepted with no agents, and one accepted
\* with the list of one agent.
C23_WitnessNone ==
    /\ last.op = "Task" /\ ~Raised(last) /\ last.ret = <<"kw", NoAgents>>
    /\ agents[last.task] = NoAgents
C23_WitnessList ==
    /\ last.op = "Task" /\ ~Raised(last)
    /\ agents[last.task] = AgentList({"a1"})

\* ---------------------------------------------------------------- C24
\* The overrides of the call the step made, and their names.
C24_Overrides == last'.arg[2]
C24_NoSetting(kw) == \E i \in DOMAIN kw : kw[i][1] \notin SettingFields

\* The settings after the overrides kw were applied to st.
RECURSIVE C24_Overridden(_, _, _)
C24_Overridden(kw, i, st) ==
    IF i > Len(kw) THEN st
    ELSE C24_Overridden(kw, i + 1, [st EXCEPT ![kw[i][1]] = kw[i][2]])

\* C24: a call of temporary_settings one of whose overrides names no
\* setting raises AttributeError and leaves every setting as it was, and
\* any other call applies its overrides; when a block ends, by a normal
\* exit or by an error of its body, also inside another block, every
\* attribute it overrode has the value it had when the block was entered
\* and nothing but the error of the body, if any, is raised.
C24_SettingsRestored ==
    [][/\ last'.op = "temporary_settings"
            => IF C24_NoSetting(C24_Overrides)
               THEN last'.err = "AttributeError" /\ settings' = settings
               ELSE /\ ~Raised(last')
                    /\ settings' = C24_Overridden(C24_Overrides, 1, settings)
       /\ last'.op = "exit_settings"
            => LET top == blocks[Len(blocks)] IN
               /\ last'.err \in {"ok", "body_error"}
               /\ \A i \in DOMAIN top.names :
                     settings'[top.names[i]] = top.before[top.names[i]]]_vars

\* The overrides name fields of the settings, or nothing the settings
\* object has an attribute of.
C24_Plain(names) ==
    \A i \in DOMAIN names : names[i] \in SettingFields \cup MissingAttrs

\* C24 for overrides that name fields or unknown names only: there the
\* call and the end of the block do what the claim says.
C24_FieldsRestored ==
    [][/\ (last'.op = "temporary_settings"
             /\ C24_Plain(Names(C24_Overrides)))
            => IF C24_NoSetting(C24_Overrides)
               THEN last'.err = "AttributeError" /\ settings' = settings
               ELSE /\ ~Raised(last')
                    /\ settings' = C24_Overridden(C24_Overrides, 1, settings)
       /\ (last'.op = "exit_settings"
             /\ C24_Plain(blocks[Len(blocks)].names))
            => LET top == blocks[Len(blocks)] IN
               /\ last'.err \in {"ok", "body_error"}
               /\ \A i \in DOMAIN top.names :
                     settings'[top.names[i]] = top.before[top.names[i]]]_vars

\* C24: an inner block that overrode a field the outer block had
\* overridden has ended by an error of its body, and the field has the
\* value of the outer override again, not the one from before both.
C24_NestedRestored ==
    /\ last.op = "exit_settings" /\ last.err = "body_error"
    /\ Len(blocks) = 1
    /\ blocks[1].names = <<"log_prints">>
    /\ last.arg = <<"kwargs", <<"log_prints">>>>
    /\ blocks[1].before["log_prints"] = 0 /\ settings["log_prints"] = 1

\* C24: a block that overrode the private attribute has ended with
\* KeyError and the attribute still has the overriding value.
C24_PrivateNotRestored ==
    /\ last.op = "exit_settings" /\ last.err = "KeyError"
    /\ last.arg = <<"kwargs", <<"_prefect_context">>>>
    /\ blocks = <<>> /\ settings["_prefect_context"] = 1

\* ---------------------------------------------------------------- C25
C25_StatusOps ==
    {"mark_running", "mark_successful", "mark_failed", "mark_skipped",
     "succeed", "fail"}

\* C25: a status mutator or a completion tool called on a task leaves the
\* id, the parent, the dependencies, the subtasks and the downstream set of
\* every task as they were, leaves the status and the result of every
\* other task as they were, and, when it is mark_running or mark_skipped,
\* leaves the result of the task as it was.
C25_OnlyOwnStatus ==
    [][last'.op \in C25_StatusOps
         => /\ id' = id /\ parent' = parent /\ depends_on' = depends_on
            /\ subtasks' = subtasks /\ downstreams' = downstreams
            /\ \A u \in TaskIds \ {last'.task} :
                  status'[u] = status[u] /\ result'[u] = result[u]
            /\ last'.op \in {"mark_running", "mark_skipped"}
                  => result'[last'.task] = result[last'.task]]_vars

\* C25: a task has just failed while its parent, which depends on it, and
\* a task that names it in depends_on are still pending.
C25_Witness ==
    /\ last.op \in {"mark_failed", "fail"} /\ last.task = 2
    /\ status[2] = "FAILED" /\ result[2] # NoneV
    /\ parent[2] = 1 /\ 2 \in depends_on[1] /\ status[1] = "PENDING"

\* C25: a task was skipped after it had got a result, and keeps the result.
C25_WitnessSkip ==
    /\ last.op = "mark_skipped" /\ status[1] = "SKIPPED"
    /\ result[1] # NoneV /\ 1 \in depends_on[2] /\ status[2] = "RUNNING"

\* ---------------------------------------------------------------- C26
\* The tasks that S reaches in at most n more steps along depends_on
\* without passing a complete task.
RECURSIVE C26_Reach(_, _)
C26_Reach(S, n) ==
    IF n = 0 THEN S
    ELSE C26_Reach(S \cup {v \in TaskIds :
                              /\ is_incomplete(v)
                              /\ \E u \in S : v \in depends_on[u]}, n - 1)

\* The task is on a dependency cycle all of whose tasks are incomplete.
C26_OnLiveCycle(t) ==
    /\ t \in created /\ is_incomplete(t)
    /\ t \in C26_Reach({v \in depends_on[t] : is_incomplete(v)}, MaxTasks)

\* The step completes or starts no task but a ready one.
C26_ReadinessDriven ==
    last'.op \in {"mark_running", "mark_skipped", "mark_failed",
                  "mark_successful"}
        => is_ready(last'.task)

\* C26: wherever every task of a dependency cycle (a task that depends on
\* itself included) is incomplete, no task of the cycle is ready; and a
\* step that changes the status of ready tasks only leaves every such
\* task on a cycle of incomplete tasks.
C26_CycleNeverReady ==
    /\ [](\A t \in TaskIds : C26_OnLiveCycle(t) => ~is_ready(t))
    /\ [][C26_ReadinessDriven
            => \A t \in TaskIds :
                  C26_OnLiveCycle(t) => C26_OnLiveCycle(t)']_vars

\* C26: add_dependency has closed a cycle of two incomplete tasks, one of
\* which has no other dependency.
C26_Witness ==
    /\ last.op = "add_dependency" /\ ~Raised(last)
    /\ depends_on[1] = {2} /\ 1 \in depends_on[2]
    /\ is_incomplete(1) /\ is_incomplete(2)

\* C26: add_dependency has made a task depend on itself, all its other
\* dependencies being complete.
C26_WitnessSelf ==
    /\ last.op = "add_dependency" /\ last.task = 1 /\ last.arg = IntV(1)
    /\ depends_on[1] = {1, 2} /\ is_complete(2) /\ is_incomplete(1)

\* ---------------------------------------------------------------- C27
\* C27: the error add_subtask raises for a task that already has another
\* parent names that task, the child.
C27_ErrorNamesChild ==
    (last.op = "add_subtask" /\ last.err = "has_parent")
        => last.ret = friendly_name(last.arg[2])

\* What the code does: the error names the task add_subtask was called on.
C27_ErrorNamesCallee ==
    (last.op = "add_subtask" /\ last.err = "has_parent")
        => last.ret = friendly_name(last.task)

\* C27: add_subtask was refused for a child of another task.
C27_Witness ==
    /\ last.op = "add_subtask" /\ last.err = "has_parent"
    /\ last.task = 2 /\ last.arg = IntV(3) /\ parent[3] = 1

\* ---------------------------------------------------------------- C28
\* C28: a result type for which no argument schema can be generated is
\* refused when the task is constructed, so no task has one.
C28_RefusedAtDefinition ==
    \A t \in created : result_schema(t) # "missing"

\* What the code does: the constructor takes any result type, and the
\* missing schema is reported when the success tool is created and only
\* then; a result submitted to such a task is validated by calling the
\* class.
C28_ReportedAtToolCreation ==
    /\ last.op = "Task" => ~Raised(last)
    /\ last.op = "create_success_tool"
         => (last.err = "no_schema" <=> result_schema(last.task) = "missing")
    /\ (last.op = "mark_successful" /\ result_schema(last.task) = "missing")
         => (~Raised(last) => result[last.task][1] \in {"obj", "text"})

\* C28: the creation of the success tool has failed for a task that was
\* constructed with a class without a schema.
C28_Witness ==
    /\ last.op = "create_success_tool" /\ last.err = "no_schema"
    /\ last.task \in created /\ status[last.task] = "PENDING"

\* C28: such a task has been marked successful with a result.
C28_WitnessResult ==
    /\ last.op = "mark_successful" /\ ~Raised(last)
    /\ result_schema(1) = "missing" /\ status[1] = "SUCCESSFUL"
    /\ result[1] = ObjV(1)

\* ---------------------------------------------------------------- C29
\* The ancestors of a task: its parent, the parent of its parent and so
\* on, followed for at most n steps.
RECURSIVE C29_Ancestors(_, _)
C29_Ancestors(t, n) ==
    IF n = 0 \/ parent[t] = NoTask THEN {}
    ELSE {parent[t]} \cup C29_Ancestors(parent[t], n - 1)

\* C29: no task is its own parent or its own ancestor, and get_agents
\* returns on every task.
C29_ParentAcyclic ==
    /\ \A t \in created : t \notin C29_Ancestors(t, MaxTasks)
    /\ last.op = "get_agents" => last.err # "RecursionError"

\* C29: add_subtask has made a task its own parent.
C29_OwnParent ==
    /\ last.op = "add_subtask" /\ ~Raised(last)
    /\ last.task = 1 /\ last.arg = IntV(1) /\ parent[1] = 1

\* C29: add_subtask has made a task the child of its own child, and
\* get_agents, called on a task of the cycle none of whose tasks has
\* agents, has ended with RecursionError.
C29_GetAgentsOverflows ==
    /\ last.op = "get_agents" /\ last.err = "RecursionError"
    /\ parent[1] = 2 /\ parent[2] = 1

\* ---------------------------------------------------------------- C30
\* Both invocations have ended, neither because of its argument.
C30_BothEnded ==
    \A th \in Threads :
        pc[th] = "done" /\ frame[th].out \in {"ok", "already_successful"}

\* The invocations overlapped: each passed the guard before the other had
\* written the status.
C30_Overlapped == \A th \in Threads : frame[th].pre # "SUCCESSFUL"

\* C30 as stated: of two invocations of the success tool of a task that
\* overlap, exactly one reports success, the stored result is the
\* validated value of that one, and the other reports that the task is
\* already marked successful.
C30_AsStated ==
    (C30_BothEnded /\ C30_Overlapped)
        => \E th \in Threads :
              /\ frame[th].out = "ok" /\ result[1] = frame[th].val
              /\ \A o \in Threads \ {th} :
                    frame[o].out = "already_successful"

\* C30 amended: an invocation reports that the task is already marked
\* successful exactly when it found the task SUCCESSFUL at its guard, so
\* of two invocations made one after the other the second reports it,
\* while two that overlap and pass validation both report success; the
\* result is written by the result write of an invocation and by nothing
\* else, so the stored result is the validated value of the invocation
\* that wrote last; and the task is SUCCESSFUL once an invocation has
\* reported success.
C30_LastWriterWins ==
    /\ [](\A th \in Threads :
             pc[th] = "done"
                => /\ frame[th].out = "already_successful"
                        <=> frame[th].pre = "SUCCESSFUL"
                   /\ frame[th].out = "ok" => status[1] = "SUCCESSFUL")
    /\ []((C30_BothEnded /\ C30_Overlapped)
             => /\ \A th \in Threads : frame[th].out = "ok"
                /\ \E th \in Threads : result[1] = frame[th].val)
    /\ [][IF last'.op = "succeed_write_result"
          THEN \E th \in Threads :
                  /\ pc[th] = "write_result" /\ pc'[th] = "write_status"
                  /\ result'[1] = frame[th].val
          ELSE last'.op # "Task" => result' = result]_vars

\* C30: two overlapping invocations with different arguments have both
\* reported success, and the result is that of the second.
C30_Witness ==
    /\ C30_BothEnded /\ C30_Overlapped
    /\ frame[1].out = "ok" /\ frame[2].out = "ok"
    /\ frame[1].val # frame[2].val /\ result[1] = frame[2].val

\* C30: the second of two invocations made one after the other has
\* reported that the task is already marked successful.
C30_WitnessSerial ==
    /\ C30_BothEnded /\ frame[1].out = "ok"
    /\ frame[2].pre = "SUCCESSFUL" /\ frame[2].out = "already_successful"
    /\ result[1] = frame[1].val

====
